---- MODULE Spec2Model ----
(***************************************************************************)
(* Service monitor (srcs/requirements/bonus/monitor/app/monitor.py).       *)
(*                                                                         *)
(* One Flask worker handles one request at a time.  GET / runs index(),    *)
(* which evaluates the seven check functions while it builds the services  *)
(* dict, then reads the clock and renders; GET /health runs health().      *)
(* The handler blocks inside subprocess.run (timeout=5) and inside the     *)
(* FTP socket's connect and recv (settimeout(3)); between two blocking     *)
(* calls it runs without the clock advancing.  The monitored services are  *)
(* the environment: it decides how each blocking call ends.                *)
(***************************************************************************)
EXTENDS Integers, Sequences, FiniteSets, TLC

VARIABLES
    pc,         \* "idle" | "index" | "health" | "done": position of the worker
    route,      \* path of the request being handled ("" when idle)
    services,   \* the dict built by index(): sequence of [name, healthy]
    cur,        \* name of the check function being executed, "" if none
    at,         \* where the check is: blocked in "run" | "connect" | "recv",
                \* at its "return", or "none"
    now,        \* wall clock, in seconds since the request arrived
    opStart,    \* clock value when the blocking call in progress was entered
    child,      \* subprocess spawned by this request: "none" | "running" | "reaped"
    sock,       \* descriptor of the socket made by check_ftp: "none" | "open" | "closed"
    obs,        \* how the I/O of the check being executed ended (what it observed)
    ret,        \* what the check being executed is about to return or raise
    started,    \* names of the checks called while handling this request
    firstStart, \* clock value when the first check of this request was called
    lastReturn, \* clock value when the latest check left its try block
    response    \* the HTTP response produced, NoResponse until then

vars == <<pc, route, services, cur, at, now, opStart, child, sock, obs, ret,
          started, firstStart, lastReturn, response>>

-----------------------------------------------------------------------------
(* Bounds of the model *)

\* the peer's first segment holds at most MaxBanner bytes
MaxBanner == 3

(* Program constants *)

\* subprocess.run(..., timeout=5)
CommandTimeout == 5
\* sock.settimeout(3)
SocketTimeout == 3
\* sock.recv(1024)
RecvBudget == 1024

NoTime == 0 - 1
NoObs == [kind |-> "none", returncode |-> 0, stdout |-> <<>>, data |-> <<>>]
NoResponse == [status |-> 0, body |-> "", services |-> <<>>, timestamp |-> NoTime]

-----------------------------------------------------------------------------
(* The registry: the keys of the dict literal of index(), in source order *)

\* mutant: the WordPress entry is keyed "NGINX" a second time
RegistryDuplicateKey ==
    << "MariaDB", "Redis", "NGINX", "NGINX", "FTP", "Adminer", "Static Site" >>

Registry ==
    << "MariaDB", "Redis", "NGINX", "WordPress", "FTP", "Adminer", "Static Site" >>

\* the checks that call subprocess.run
CommandChecks == {"MariaDB", "Redis", "NGINX", "WordPress", "Adminer", "Static Site"}

-----------------------------------------------------------------------------
(* Bytes and text.  A byte is 0..255; text is a sequence of code points.   *)

\* b"PONG"
PONG == <<80, 79, 78, 71>>
\* "220"
Prefix220 == <<50, 50, 48>>

\* needle in hay, for bytes objects: some window of hay equals needle
Contains(needle, hay) ==
    \E i \in 0..(Len(hay) - Len(needle)) :
        \A j \in 1..Len(needle) : hay[i + j] = needle[j]

\* str.startswith
startswith(s, p) ==
    /\ Len(s) >= Len(p)
    /\ \A j \in 1..Len(p) : s[j] = p[j]

\* bytes.decode() (UTF-8, strict): ok with the text, or a UnicodeDecodeError.
\* One- and two-byte sequences are decoded; every other lead byte is invalid.
RECURSIVE decode(_)
decode(b) ==
    IF b = <<>> THEN [ok |-> TRUE, text |-> <<>>]
    ELSE IF b[1] < 128
    THEN LET r == decode(Tail(b))
         IN  [ok |-> r.ok, text |-> IF r.ok THEN <<b[1]>> \o r.text ELSE <<>>]
    ELSE IF b[1] >= 194 /\ b[1] <= 223 /\ Len(b) >= 2 /\ b[2] >= 128 /\ b[2] <= 191
    THEN LET r == decode(Tail(Tail(b)))
         IN  [ok |-> r.ok,
              text |-> IF r.ok THEN <<(b[1] - 192) * 64 + (b[2] - 128)>> \o r.text
                       ELSE <<>>]
    ELSE [ok |-> FALSE, text |-> <<>>]

\* sock.recv(n): at most n bytes of what the peer has sent
recv(sent, n) == IF Len(sent) <= n THEN sent ELSE SubSeq(sent, 1, n)

-----------------------------------------------------------------------------
(* What a check's I/O can end with *)

RECURSIVE SeqsUpTo(_, _)
SeqsUpTo(S, n) ==
    IF n = 0 THEN {<<>>}
    ELSE LET shorter == SeqsUpTo(S, n - 1)
         IN  shorter \cup {<<x>> \o s : x \in S, s \in {t \in shorter : Len(t) = n - 1}}

\* '2', '0' and a byte that is valid nowhere in UTF-8
BannerBytes == {50, 48, 255}
Banners == SeqsUpTo(BannerBytes, MaxBanner)

\* exit codes of the external commands
ExitCodes == {0, 7}
\* captured standard output: "PONG\n", "-PONG", "PON"
Stdouts == { <<80, 79, 78, 71, 10>>, <<45, 80, 79, 78, 71>>, <<80, 79, 78>> }

ObsExit(code, out) == [kind |-> "exit", returncode |-> code, stdout |-> out, data |-> <<>>]
ObsRaise(k) == [kind |-> k, returncode |-> 0, stdout |-> <<>>, data |-> <<>>]
ObsData(d) == [kind |-> "data", returncode |-> 0, stdout |-> <<>>, data |-> d]

-----------------------------------------------------------------------------
(* The check functions: the value returned, or the exception that leaves   *)
(* the function, for each way the I/O inside the try block can end.        *)

Returns(v) == [kind |-> "return", value |-> v]
Raise == [kind |-> "raise", value |-> FALSE]
NoRet == [kind |-> "none", value |-> FALSE]

\* mutant: only a non-zero exit is handled, the except clause is missing
check_mariadb_no_except(o) ==
    IF o.kind = "exit" THEN Returns(o.returncode = 0) ELSE Raise

check_mariadb(o) ==
    IF o.kind = "exit" THEN Returns(o.returncode = 0) ELSE Returns(FALSE)

check_redis(o) ==
    IF o.kind = "exit" THEN Returns(Contains(PONG, o.stdout)) ELSE Returns(FALSE)

check_nginx(o) ==
    IF o.kind = "exit" THEN Returns(o.returncode = 0) ELSE Returns(FALSE)

check_wordpress(o) ==
    IF o.kind = "exit" THEN Returns(o.returncode = 0) ELSE Returns(FALSE)

\* mutant: the prefix tested is "22"
check_ftp_prefix22(o) ==
    IF o.kind = "data"
    THEN LET banner == decode(recv(o.data, RecvBudget))
         IN  IF banner.ok THEN Returns(startswith(banner.text, <<50, 50>>))
             ELSE Returns(FALSE)
    ELSE Returns(FALSE)

check_ftp(o) ==
    IF o.kind = "data"
    THEN LET banner == decode(recv(o.data, RecvBudget))
         IN  IF banner.ok THEN Returns(startswith(banner.text, Prefix220))
             ELSE Returns(FALSE)
    ELSE Returns(FALSE)

\* mutant: the exit code is not tested
check_adminer_any_exit(o) ==
    IF o.kind = "exit" THEN Returns(TRUE) ELSE Returns(FALSE)

check_adminer(o) ==
    IF o.kind = "exit" THEN Returns(o.returncode = 0) ELSE Returns(FALSE)

check_static_site(o) ==
    IF o.kind = "exit" THEN Returns(o.returncode = 0) ELSE Returns(FALSE)

Check(name, o) ==
    CASE name = "MariaDB"     -> check_mariadb(o)
      [] name = "Redis"       -> check_redis(o)
      [] name = "NGINX"       -> check_nginx(o)
      [] name = "WordPress"   -> check_wordpress(o)
      [] name = "FTP"         -> check_ftp(o)
      [] name = "Adminer"     -> check_adminer(o)
      [] name = "Static Site" -> check_static_site(o)

\* check_ftp reaches sock.close() only after recv and decode both succeeded
FtpCloses(o) == o.kind = "data" /\ decode(recv(o.data, RecvBudget)).ok

\* the timeout that bounds the blocking call in progress
Timeout(call) == IF call = "run" THEN CommandTimeout ELSE SocketTimeout

\* mutant: the blocking calls are given no timeout
TimedOut_never(call) == FALSE

TimedOut(call) == now - opStart >= Timeout(call)

-----------------------------------------------------------------------------
(* The services dict *)

Keys(d) == [i \in 1..Len(d) |-> d[i].name]

\* d[k] = v: a new key is appended, an existing key keeps its position
DictSet(d, k, v) ==
    IF \E i \in 1..Len(d) : d[i].name = k
    THEN [i \in 1..Len(d) |-> IF d[i].name = k THEN [name |-> k, healthy |-> v] ELSE d[i]]
    ELSE Append(d, [name |-> k, healthy |-> v])

\* mutant: health is registered under no path of its own
RouteAllIndex(path) == "index"

\* the routes registered with @app.route
Route(path) == IF path = "/" THEN "index" ELSE "health"

\* the next entry of the dict literal to evaluate
NextCheck == Registry[Len(started) + 1]

-----------------------------------------------------------------------------
(* Initial state: the worker is waiting for a request *)

Init ==
    /\ pc = "idle"
    /\ route = ""
    /\ services = <<>>
    /\ cur = ""
    /\ at = "none"
    /\ now = 0
    /\ opStart = 0
    /\ child = "none"
    /\ sock = "none"
    /\ obs = NoObs
    /\ ret = NoRet
    /\ started = <<>>
    /\ firstStart = NoTime
    /\ lastReturn = NoTime
    /\ response = NoResponse

\* mutant: the next check is dispatched while one is being executed
AtEntry_concurrent == pc = "index" /\ Len(started) < Len(Registry)

\* index() is about to evaluate the next entry of the dict literal
AtEntry == pc = "index" /\ cur = "" /\ Len(started) < Len(Registry)

\* bookkeeping of a call of the check `name`
Called(name) ==
    /\ cur' = name
    /\ started' = Append(started, name)
    /\ firstStart' = IF started = <<>> THEN now ELSE firstStart

\* the I/O of the check `name` ends with o: the check goes to its return
\* statement, or to its except clause, with the value that decides
Ends(name, o) ==
    /\ obs' = o
    /\ ret' = Check(name, o)
    /\ at' = "return"
    /\ opStart' = 0
    /\ lastReturn' = now

\* a socket object that goes out of scope without close(): the descriptor
\* stays open until the runtime finalizes the object, at once or later
Dropped == {"open", "closed"}

-----------------------------------------------------------------------------
(* A request arrives *)

Request ==
    /\ pc \in {"idle", "done"}
    /\ \E path \in {"/", "/health"} :
          /\ route' = path
          /\ pc' = Route(path)
    /\ now' = 0
    /\ services' = <<>>
    /\ started' = <<>>
    /\ cur' = ""
    /\ at' = "none"
    /\ opStart' = 0
    /\ child' = "none"
    /\ sock' = "none"
    /\ obs' = NoObs
    /\ ret' = NoRet
    /\ firstStart' = NoTime
    /\ lastReturn' = NoTime
    /\ response' = NoResponse

-----------------------------------------------------------------------------
(* The six command checks: subprocess.run(argv, capture_output=True,      *)
(* timeout=5) inside try / except Exception                                *)

\* the command is spawned and run() waits for it
Spawn ==
    /\ AtEntry
    /\ NextCheck \in CommandChecks
    /\ Called(NextCheck)
    /\ at' = "run"
    /\ opStart' = now
    /\ child' = "running"
    /\ UNCHANGED <<pc, route, services, now, sock, obs, ret, lastReturn, response>>

\* the command cannot be spawned (binary missing, fork fails): OSError
SpawnFails ==
    /\ AtEntry
    /\ NextCheck \in CommandChecks
    /\ Called(NextCheck)
    /\ Ends(NextCheck, ObsRaise("spawn_error"))
    /\ child' = "none"
    /\ UNCHANGED <<pc, route, services, now, sock, response>>

\* the command exits before the timeout: run() reaps it and returns
CommandExits ==
    /\ at = "run"
    /\ \E code \in ExitCodes, out \in Stdouts : Ends(cur, ObsExit(code, out))
    /\ child' = "reaped"
    /\ UNCHANGED <<pc, route, services, cur, now, sock, started,
                   firstStart, response>>

\* the timeout expires: run() kills the command, waits for it and raises
\* TimeoutExpired
CommandTimesOut ==
    /\ at = "run"
    /\ TimedOut("run")
    /\ Ends(cur, ObsRaise("timeout"))
    /\ child' = "reaped"
    /\ UNCHANGED <<pc, route, services, cur, now, sock, started,
                   firstStart, response>>

-----------------------------------------------------------------------------
(* check_ftp: socket, settimeout(3), connect, recv(1024).decode(), close   *)

\* the socket is created and connect() is entered
FtpConnect ==
    /\ AtEntry
    /\ NextCheck = "FTP"
    /\ Called("FTP")
    /\ at' = "connect"
    /\ opStart' = now
    /\ sock' = "open"
    /\ UNCHANGED <<pc, route, services, now, child, obs, ret, lastReturn, response>>

\* socket.socket() raises (no descriptor is made): OSError
FtpSocketFails ==
    /\ AtEntry
    /\ NextCheck = "FTP"
    /\ Called("FTP")
    /\ Ends("FTP", ObsRaise("socket_error"))
    /\ sock' = "none"
    /\ UNCHANGED <<pc, route, services, now, child, response>>

\* the connection is established and recv() is entered
ConnectOk ==
    /\ at = "connect"
    /\ at' = "recv"
    /\ opStart' = now
    /\ UNCHANGED <<pc, route, services, cur, now, child, sock, obs, ret, started,
                   firstStart, lastReturn, response>>

\* connect() raises: connection refused, host unreachable, name not resolved
ConnectFails ==
    /\ at = "connect"
    /\ \E k \in {"refused", "unreachable", "dns"} : Ends("FTP", ObsRaise(k))
    /\ UNCHANGED <<pc, route, services, cur, now, child, sock, started,
                   firstStart, response>>

\* connect() raises socket.timeout
ConnectTimesOut ==
    /\ at = "connect"
    /\ TimedOut("connect")
    /\ Ends("FTP", ObsRaise("timeout"))
    /\ UNCHANGED <<pc, route, services, cur, now, child, sock, started,
                   firstStart, response>>

\* recv() returns what the peer sent first (nothing when it closed); the
\* bytes are decoded and, when that succeeds, the socket is closed
RecvData ==
    /\ at = "recv"
    /\ \E d \in Banners :
          /\ Ends("FTP", ObsData(d))
          /\ sock' = IF FtpCloses(ObsData(d)) THEN "closed" ELSE sock
    /\ UNCHANGED <<pc, route, services, cur, now, child, started,
                   firstStart, response>>

\* recv() raises: connection reset by the peer
RecvFails ==
    /\ at = "recv"
    /\ Ends("FTP", ObsRaise("reset"))
    /\ UNCHANGED <<pc, route, services, cur, now, child, sock, started,
                   firstStart, response>>

\* recv() raises socket.timeout
RecvTimesOut ==
    /\ at = "recv"
    /\ TimedOut("recv")
    /\ Ends("FTP", ObsRaise("timeout"))
    /\ UNCHANGED <<pc, route, services, cur, now, child, sock, started,
                   firstStart, response>>

-----------------------------------------------------------------------------
(* The check returns: its value is stored under its key and index() goes   *)
(* on with the next entry.  An exception that leaves the check leaves      *)
(* index() too, and Flask answers 500.  The locals of the check are gone:  *)
(* a reaped child and a closed socket leave nothing behind, a socket that  *)
(* was not closed is dropped.                                              *)

Return ==
    /\ at = "return"
    /\ IF ret.kind = "raise"
       THEN /\ pc' = "done"
            /\ services' = services
            /\ response' = [status |-> 500, body |-> "error",
                            services |-> <<>>, timestamp |-> NoTime]
       ELSE /\ pc' = pc
            /\ services' = DictSet(services, cur, ret.value)
            /\ response' = response
    /\ cur' = ""
    /\ at' = "none"
    /\ obs' = NoObs
    /\ ret' = NoRet
    /\ child' = IF child = "reaped" THEN "none" ELSE child
    /\ sock' \in CASE sock = "open"   -> Dropped
                   [] sock = "closed" -> {"none"}
                   [] OTHER           -> {sock}
    /\ UNCHANGED <<route, now, opStart, started, firstStart, lastReturn>>

-----------------------------------------------------------------------------
(* Time passes while the handler is blocked, until the timeout is due *)

Tick ==
    /\ at \in {"run", "connect", "recv"}
    /\ ~TimedOut(at)
    /\ now' = now + 1
    /\ UNCHANGED <<pc, route, services, cur, at, opStart, child, sock, obs, ret,
                   started, firstStart, lastReturn, response>>

-----------------------------------------------------------------------------
(* The handlers' last statements *)

\* mutant: the status code follows the health of the services
index_status_by_health ==
    /\ pc = "index"
    /\ cur = ""
    /\ Len(started) = Len(Registry)
    /\ response' = [status |-> IF \A i \in 1..Len(services) : services[i].healthy
                               THEN 200 ELSE 503,
                    body |-> "index.html",
                    services |-> services, timestamp |-> now]
    /\ pc' = "done"
    /\ UNCHANGED <<route, services, cur, at, now, opStart, child, sock, obs, ret,
                   started, firstStart, lastReturn>>

\* mutant: the timestamp is the clock value at which the first check began
index_stamp_first ==
    /\ pc = "index"
    /\ cur = ""
    /\ Len(started) = Len(Registry)
    /\ response' = [status |-> 200, body |-> "index.html",
                    services |-> services, timestamp |-> firstStart]
    /\ pc' = "done"
    /\ UNCHANGED <<route, services, cur, at, now, opStart, child, sock, obs, ret,
                   started, firstStart, lastReturn>>

\* index(): the dict is complete; datetime.now() and render_template
index ==
    /\ pc = "index"
    /\ cur = ""
    /\ Len(started) = Len(Registry)
    /\ response' = [status |-> 200, body |-> "index.html",
                    services |-> services, timestamp |-> now]
    /\ pc' = "done"
    /\ UNCHANGED <<route, services, cur, at, now, opStart, child, sock, obs, ret,
                   started, firstStart, lastReturn>>

\* health(): return "OK", 200
health ==
    /\ pc = "health"
    /\ response' = [status |-> 200, body |-> "OK",
                    services |-> <<>>, timestamp |-> NoTime]
    /\ pc' = "done"
    /\ UNCHANGED <<route, services, cur, at, now, opStart, child, sock, obs, ret,
                   started, firstStart, lastReturn>>

-----------------------------------------------------------------------------

\* the steps of the worker itself
Worker ==
    \/ Spawn
    \/ FtpConnect
    \/ Return
    \/ index
    \/ health

\* the timeouts the code sets
Timeouts ==
    \/ CommandTimesOut
    \/ ConnectTimesOut
    \/ RecvTimesOut

\* the steps decided by the environment
Environment ==
    \/ Request
    \/ SpawnFails
    \/ FtpSocketFails
    \/ CommandExits
    \/ ConnectOk
    \/ ConnectFails
    \/ RecvData
    \/ RecvFails

Next == Worker \/ Timeouts \/ Environment \/ Tick

Spec == Init /\ [][Next]_vars

\* The clock advances, a due timeout fires and the worker takes its next
\* step; nothing is assumed of the monitored services.
FairSpec ==
    /\ Spec
    /\ WF_vars(Tick)
    /\ WF_vars(Timeouts)
    /\ WF_vars(Return)
    /\ WF_vars(index)
    /\ WF_vars(health)
    /\ WF_vars(Spawn \/ SpawnFails)
    /\ WF_vars(FtpConnect \/ FtpSocketFails)

-----------------------------------------------------------------------------
(* Properties *)

\* a response to GET / has been produced
Reported == pc = "done" /\ route = "/"

\* the check being executed has left its try block and is about to return
Returning(name) == at = "return" /\ cur = name

\* C1: every completed report holds exactly seven entries, one for each of
\* MariaDB, Redis, NGINX, WordPress, FTP, Adminer, Static Site, in that
\* order, whatever the probes' outcomes were.
SevenEntriesInOrder ==
    Reported =>
        Keys(response.services) =
            << "MariaDB", "Redis", "NGINX", "WordPress", "FTP", "Adminer",
               "Static Site" >>

\* C1 witness: a completed report with healthy and unhealthy entries, the
\* FTP probe having failed
SevenEntriesMixed ==
    /\ Reported
    /\ Len(response.services) = 7
    /\ response.services[1].healthy
    /\ ~response.services[2].healthy
    /\ ~response.services[5].healthy
    /\ response.services[7].healthy

\* an error inside the check: an exception in the try block, a non-zero
\* exit of a command whose exit code is tested, no PONG from redis-cli, a
\* banner that does not decode or does not begin with 220
Failure(name, o) ==
    \/ o.kind \notin {"exit", "data"}
    \/ o.kind = "exit" /\ name # "Redis" /\ o.returncode # 0
    \/ o.kind = "exit" /\ name = "Redis" /\ o.returncode # 0 /\ ~Contains(PONG, o.stdout)
    \/ o.kind = "data" /\ (Len(o.data) < 3 \/ ~decode(o.data).ok)
    \/ o.kind = "data" /\ Len(o.data) >= 3 /\ SubSeq(o.data, 1, 3) # <<50, 50, 48>>

HealthAlwaysOK ==
    route = "/health" =>
        /\ started = <<>>
        /\ cur = ""
        /\ child = "none"
        /\ sock = "none"
        /\ pc = "done" => /\ response.status = 200
                          /\ response.body = "OK"

\* C3 witness: a /health request has been answered
HealthAnswered == pc = "done" /\ route = "/health" /\ response.body = "OK"

\* C4: GET / completes with status 200 and the full seven-entry report for
\* every combination of check outcomes.
IndexAlways200 ==
    Reported =>
        /\ response.status = 200
        /\ response.body = "index.html"
        /\ Len(response.services) = 7

\* C4 witness: all seven checks failed and the answer is 200
AllDown200 ==
    /\ Reported
    /\ response.status = 200
    /\ Len(response.services) = 7
    /\ \A i \in 1..7 : ~response.services[i].healthy

\* C5 as claimed: the report's timestamp is read before the first check
\* starts, so it is never later than the start of any check.
TimestampAtBegin ==
    Reported => response.timestamp <= firstStart

\* C5 as amended: the report's timestamp is read after the seventh check
\* has returned, so it is never earlier than the start or the return of any
\* of the seven checks.
TimestampAtEnd ==
    Reported =>
        /\ response.timestamp >= lastReturn
        /\ lastReturn >= firstStart
        /\ firstStart >= 0

\* C5 witness: a report whose timestamp is later than the start of its
\* first check
TimestampAfterStart ==
    /\ Reported
    /\ response.status = 200
    /\ response.timestamp > firstStart

\* C6 as claimed: once a check has returned, every socket it opened is
\* closed and every subprocess it spawned has been reaped.
ReleasedOnReturn ==
    at = "none" => (sock # "open" /\ child # "running")

\* C7: the FTP check is about to return True exactly when the connection
\* succeeded and the first data received decodes and begins with "220";
\* every other end of its I/O makes it return False.
FtpHealthyIff220 ==
    Returning("FTP") =>
        /\ ret.kind = "return"
        /\ ret.value <=>
              /\ obs.kind = "data"
              /\ Len(obs.data) >= 3
              /\ obs.data[1] = 50 /\ obs.data[2] = 50 /\ obs.data[3] = 48
              /\ decode(obs.data).ok

\* C7 witness: the banner "220" was received and the check returns True
Ftp220Received ==
    /\ Returning("FTP")
    /\ obs.kind = "data"
    /\ obs.data = <<50, 50, 48>>
    /\ ret.value

\* C8 as claimed: each of the six command checks returns True exactly when
\* the command finished within its timeout with exit code zero.
ExitCodeDecides ==
    (at = "return" /\ cur \in CommandChecks) =>
        (ret.value <=> (obs.kind = "exit" /\ obs.returncode = 0))

\* C8 as amended: MariaDB, NGINX, WordPress, Adminer and Static Site return
\* True exactly when the command finished within its timeout with exit code
\* zero, whatever it wrote; Redis returns True exactly when the command
\* finished within its timeout and its captured output contains PONG,
\* whatever its exit code.
ExitCodeOrPong ==
    (at = "return" /\ cur \in CommandChecks) =>
        /\ ret.kind = "return"
        /\ cur # "Redis" => (ret.value <=> (obs.kind = "exit" /\ obs.returncode = 0))
        /\ cur = "Redis" =>
              (ret.value <=>
                  /\ obs.kind = "exit"
                  /\ \E i \in 1..Len(obs.stdout) :
                        /\ i + 3 <= Len(obs.stdout)
                        /\ SubSeq(obs.stdout, i, i + 3) = <<80, 79, 78, 71>>)

\* C8 witness: redis-cli exited with a non-zero code having written PONG,
\* and the check returns True
RedisPongNonZero ==
    /\ Returning("Redis")
    /\ obs.kind = "exit"
    /\ obs.returncode # 0
    /\ ret.value

\* C9: the seven checks run one after another in registration order: the
\* checks called so far are a prefix of the registry (each once), all of
\* them but the one being executed have stored their boolean, and no
\* response exists while a check is pending or being executed.
Sequential ==
    /\ started = SubSeq(<< "MariaDB", "Redis", "NGINX", "WordPress", "FTP",
                           "Adminer", "Static Site" >>, 1, Len(started))
    /\ (cur = "") <=> (at = "none")
    /\ cur # "" => cur = started[Len(started)]
    /\ pc = "index" => Len(services) = Len(started) - (IF cur = "" THEN 0 ELSE 1)
    /\ (route = "/" /\ response # NoResponse) =>
          (cur = "" /\ Len(started) = 7 /\ Len(response.services) = 7)

\* C9 witness: the fifth check is blocked in recv, four booleans are stored
FifthInFlight ==
    /\ cur = "FTP"
    /\ at = "recv"
    /\ Len(started) = 5
    /\ Len(services) = 4
    /\ response = NoResponse

====
